---- MODULE Spec2Model ----
(***************************************************************************)
(* Model of src/concert_analysis.py, class JasonIsbellConcertData.          *)
(*                                                                         *)
(* The state is the DataFrame self.df built by __init__ (a sequence of     *)
(* rows carrying the loaded columns Date, Venue, Song and the derived      *)
(* columns clean_song, is_cover, is_special) and the outcome of the method *)
(* call the caller is holding: which method, its argument, whether it      *)
(* returned or raised, and the value returned or the exception raised.     *)
(* Calls are synchronous: the caller takes the outcome of one call before  *)
(* it makes the next.                                                      *)
(*                                                                         *)
(* Text is a sequence of one-character strings, so that the regular        *)
(* expressions and substring tests of the code act on characters.  A date  *)
(* is a day number; strftime and to_datetime convert between day numbers   *)
(* and their 'YYYY-MM-DD' text.                                            *)
(***************************************************************************)
EXTENDS Integers, Sequences, FiniteSets

VARIABLES df, result

vars == <<df, result>>

(***************************************************************************)
(* Bounds and input sets                                                   *)
(***************************************************************************)
MaxRows == 3

Dates == {1, 2}

Venues == {"VenueA", "VenueB"}

Song_Ab == <<"A", "b">>

Song_AbCover == <<"A", "b", " ", "(", "C", "o", "v", "e", "r", ")">>

Song_cxdy == <<"c", " ", "(", "x", ")", " ", "d", " ", "(",
               "f", "i", "r", "s", "t", " ", "T", "i", "m", "e", ")">>

Songs == {Song_Ab, Song_AbCover, Song_cxdy}

\* arguments of get_top_songs
TopN == {-1, 0, 1, 2}

\* arguments of get_show_setlist
DateStrings == {"2023-06-01", "2024-03-09"}

\* arguments of find_song_appearances
Patterns == {<<>>, <<"a">>, <<".">>, <<"(">>, <<"(", "c", ")">>}

(***************************************************************************)
(* Text                                                                    *)
(***************************************************************************)
Upper == <<"A", "B", "C", "D", "E", "F", "G", "H", "I", "J", "K", "L", "M",
           "N", "O", "P", "Q", "R", "S", "T", "U", "V", "W", "X", "Y", "Z">>

Lower == <<"a", "b", "c", "d", "e", "f", "g", "h", "i", "j", "k", "l", "m",
           "n", "o", "p", "q", "r", "s", "t", "u", "v", "w", "x", "y", "z">>

\* one character under re.IGNORECASE
Fold(c) ==
    IF \E i \in 1..Len(Upper) : Upper[i] = c
    THEN Lower[CHOOSE i \in 1..Len(Upper) : Upper[i] = c]
    ELSE c

IsSpace(c) == c = " "

\* str.strip(): leading and trailing whitespace removed
Strip(t) ==
    LET keep == {i \in 1..Len(t) : ~IsSpace(t[i])}
    IN  IF keep = {} THEN <<>>
        ELSE LET lo == CHOOSE i \in keep : \A j \in keep : i <= j
                 hi == CHOOSE i \in keep : \A j \in keep : j <= i
             IN  SubSeq(t, lo, hi)

\* str.replace(r'\(.*\)', '', regex=True): '.*' is greedy, so the leftmost
\* match runs from the first '(' that has a ')' after it to the LAST ')' of
\* the text; nothing after it can match again.
ReplaceParen(t) ==
    LET opens  == {i \in 1..Len(t) : t[i] = "(" /\ \E j \in (i+1)..Len(t) : t[j] = ")"}
    IN  IF opens = {} THEN t
        ELSE LET i == CHOOSE a \in opens : \A b \in opens : a <= b
                 closes == {j \in (i+1)..Len(t) : t[j] = ")"}
                 j == CHOOSE a \in closes : \A b \in closes : b <= a
             IN  SubSeq(t, 1, i-1) \o SubSeq(t, j+1, Len(t))

CleanSong(song) == Strip(ReplaceParen(song))

\* one pattern character against one text character, case=False
CharMatch(p, c) == p = "." \/ Fold(p) = Fold(c)

\* a pattern without groups matched at position k of the text
MatchAt(pat, t, k) ==
    /\ k + Len(pat) - 1 <= Len(t)
    /\ \A i \in 1..Len(pat) : CharMatch(pat[i], t[k + i - 1])

\* re.search of a group-free pattern
Search(pat, t) == \E k \in 1..(Len(t) + 1) : MatchAt(pat, t, k)

\* nesting depth of the parentheses of a pattern after its first k characters
RECURSIVE Depth(_, _)
Depth(pat, k) ==
    IF k = 0 THEN 0
    ELSE Depth(pat, k-1) + (IF pat[k] = "(" THEN 1 ELSE IF pat[k] = ")" THEN -1 ELSE 0)

\* re.compile succeeds: every ')' closes a group and every group is closed
Compiles(pat) ==
    /\ \A k \in 1..Len(pat) : Depth(pat, k) >= 0
    /\ Depth(pat, Len(pat)) = 0

\* the pattern with its group delimiters dropped: a group without
\* alternation or repetition matches what its body matches
RECURSIVE Ungroup(_)
Ungroup(pat) ==
    IF pat = <<>> THEN <<>>
    ELSE IF Head(pat) \in {"(", ")"} THEN Ungroup(Tail(pat))
    ELSE <<Head(pat)>> \o Ungroup(Tail(pat))

\* Series.str.contains(pat, case=False) on one value, for a pattern that compiles
StrContains(t, pat) == Search(Ungroup(pat), t)

kw_cover == <<"c", "o", "v", "e", "r">>

kw_first_time == <<"f", "i", "r", "s", "t", " ", "t", "i", "m", "e">>

kw_dedicated == <<"d", "e", "d", "i", "c", "a", "t", "e", "d">>

kw_with_sadler == <<"w", "i", "t", "h", " ", "S", "a", "d", "l", "e", "r">>

kw_bluegrass == <<"b", "l", "u", "e", "g", "r", "a", "s", "s">>

IsCover(song) == StrContains(song, kw_cover)

IsSpecial(song) ==
    \/ StrContains(song, kw_first_time)
    \/ StrContains(song, kw_dedicated)
    \/ StrContains(song, kw_with_sadler)
    \/ StrContains(song, kw_bluegrass)

(***************************************************************************)
(* Dates                                                                   *)
(***************************************************************************)
DateText == <<"2023-01-01", "2023-06-01", "2024-03-09">>

\* Timestamp.strftime('%Y-%m-%d')
Strftime(d) == DateText[d]

\* pd.to_datetime of a date text
ToDatetime(s) == CHOOSE d \in 1..Len(DateText) : DateText[d] = s

(***************************************************************************)
(* Construction                                                            *)
(***************************************************************************)
\* one row of self.df after __init__ and _process_songs
MkRow(d, v, s) ==
    [Date |-> d, Venue |-> v, Song |-> s,
     clean_song |-> CleanSong(s), is_cover |-> IsCover(s), is_special |-> IsSpecial(s)]

Rows == {MkRow(d, v, s) : d \in Dates, v \in Venues, s \in Songs}

DataFrames == UNION {[1..k -> Rows] : k \in 0..MaxRows}

\* no call outstanding: the constructor has returned, or the caller has
\* taken the outcome of its last call
NoResult == [op |-> "none", arg |-> <<>>, status |-> "ok", value |-> <<>>]

Init ==
    /\ df \in DataFrames
    /\ result = NoResult

Returned(op, arg, v) == [op |-> op, arg |-> arg, status |-> "ok", value |-> v]

Raised(op, arg, e) == [op |-> op, arg |-> arg, status |-> "raise", value |-> e]

(***************************************************************************)
(* pandas helpers                                                          *)
(***************************************************************************)
Idx(d) == 1..Len(d)

\* Series.nunique() / Series.unique() of a column: the distinct values
DistinctDates(d) == {d[i].Date : i \in Idx(d)}

DistinctVenues(d) == {d[i].Venue : i \in Idx(d)}

DistinctCleanSongs(d) == {d[i].clean_song : i \in Idx(d)}

\* groupby(col).size(): the number of rows of one group
GroupSize(d, c) == Cardinality({i \in Idx(d) : d[i].clean_song = c})

\* (a / b) rounded to the nearest integer, halves to the even neighbour
RoundDiv(a, b) ==
    LET q == a \div b
        r == a % b
    IN  IF 2 * r < b THEN q
        ELSE IF 2 * r > b THEN q + 1
        ELSE IF q % 2 = 0 THEN q ELSE q + 1

\* DataFrame.head(n): the first n rows, or all but the last -n rows when n < 0
HeadN(s, n) ==
    IF n >= 0 THEN SubSeq(s, 1, IF n < Len(s) THEN n ELSE Len(s))
    ELSE SubSeq(s, 1, Len(s) + n)

\* sort_values(key, ascending=False) of the entries S: pandas sorts with
\* quicksort, which leaves the order of entries with equal key open, so
\* every arrangement with non-increasing key is an outcome
SortedDesc(S, key) ==
    {s \in [1..Cardinality(S) -> S] :
        /\ \A i, j \in 1..Cardinality(S) : i # j => s[i] # s[j]
        /\ \A i \in 1..(Cardinality(S) - 1) : key[s[i]] >= key[s[i+1]]}

\* sort_values(key) ascending, same openness for equal keys
SortedAsc(S, key) ==
    {s \in [1..Cardinality(S) -> S] :
        /\ \A i, j \in 1..Cardinality(S) : i # j => s[i] # s[j]
        /\ \A i \in 1..(Cardinality(S) - 1) : key[s[i]] <= key[s[i+1]]}

\* the rows of d selected by a boolean mask, in row order, as row numbers
RECURSIVE Select(_, _)
Select(n, mask) ==
    IF n = 0 THEN <<>>
    ELSE IF n \in mask THEN Append(Select(n-1, mask), n) ELSE Select(n-1, mask)

(***************************************************************************)
(* get_stats                                                               *)
(***************************************************************************)
MinDate(d) == CHOOSE x \in DistinctDates(d) : \A y \in DistinctDates(d) : x <= y

MaxDate(d) == CHOOSE x \in DistinctDates(d) : \A y \in DistinctDates(d) : y <= x

StatsRecord(d) ==
    [total_shows  |-> Cardinality(DistinctDates(d)),
     total_songs  |-> Len(d),
     unique_songs |-> Cardinality(DistinctCleanSongs(d)),
     total_venues |-> Cardinality(DistinctVenues(d)),
     date_range   |-> [first_show |-> Strftime(MinDate(d)),
                       last_show  |-> Strftime(MaxDate(d))],
     covers       |-> Cardinality({i \in Idx(d) : d[i].is_cover}),
     special_performances |-> Cardinality({i \in Idx(d) : d[i].is_special})]

\* Date.min() of an empty column is NaT, and NaT.strftime raises ValueError
StatsRaises(d) == Len(d) = 0

get_stats ==
    /\ result = NoResult
    /\ result' = IF StatsRaises(df) THEN Raised("get_stats", <<>>, "ValueError")
                 ELSE Returned("get_stats", <<>>, StatsRecord(df))
    /\ UNCHANGED df

(***************************************************************************)
(* get_top_songs                                                           *)
(***************************************************************************)
\* song_counts with its percentage column (in tenths of a percent)
SongCounts(d) ==
    {[clean_song |-> c,
      play_count |-> GroupSize(d, c),
      percentage |-> RoundDiv(GroupSize(d, c) * 1000, Cardinality(DistinctDates(d)))]
        : c \in DistinctCleanSongs(d)}

PlayCountOf(S) == [e \in S |-> e.play_count]

TopSongs(d, n) == {HeadN(s, n) : s \in SortedDesc(SongCounts(d), PlayCountOf(SongCounts(d)))}

get_top_songs(n) ==
    /\ result = NoResult
    /\ \E v \in TopSongs(df, n) : result' = Returned("get_top_songs", n, v)
    /\ UNCHANGED df

(***************************************************************************)
(* get_show_setlist                                                        *)
(***************************************************************************)
SongsOf(d, rows) == [k \in 1..Len(rows) |-> d[rows[k]].Song]

ShowSetlist(d, date) ==
    SongsOf(d, Select(Len(d), {i \in Idx(d) : d[i].Date = ToDatetime(date)}))

get_show_setlist(date) ==
    /\ result = NoResult
    /\ result' = Returned("get_show_setlist", date, ShowSetlist(df, date))
    /\ UNCHANGED df

(***************************************************************************)
(* get_rare_songs                                                          *)
(***************************************************************************)
\* Series.unique(): the values in order of first appearance
RECURSIVE Unique(_)
Unique(s) ==
    IF s = <<>> THEN <<>>
    ELSE LET init == Unique(SubSeq(s, 1, Len(s) - 1))
             x == s[Len(s)]
         IN  IF \E k \in 1..Len(init) : init[k] = x THEN init ELSE Append(init, x)

RareCleanSongs(d) == {c \in DistinctCleanSongs(d) : GroupSize(d, c) = 1}

\* variant: the groups are formed on the raw Song column
RareSongs_bySong(d) ==
    Unique(SongsOf(d, Select(Len(d),
        {i \in Idx(d) : Cardinality({j \in Idx(d) : d[j].Song = d[i].Song}) = 1})))

RareSongs(d) ==
    Unique(SongsOf(d, Select(Len(d), {i \in Idx(d) : d[i].clean_song \in RareCleanSongs(d)})))

get_rare_songs ==
    /\ result = NoResult
    /\ result' = Returned("get_rare_songs", <<>>, RareSongs(df))
    /\ UNCHANGED df

(***************************************************************************)
(* get_venue_stats                                                         *)
(***************************************************************************)
VenueRows(d, v) == {i \in Idx(d) : d[i].Venue = v}

\* one row of the aggregated frame; the average is in tenths
VenueEntry(d, v) ==
    LET shows == Cardinality({d[i].Date : i \in VenueRows(d, v)})
        total == Cardinality(VenueRows(d, v))
    IN  [Venue |-> v, shows |-> shows, total_songs |-> total,
         avg_songs_per_show |-> RoundDiv(total * 10, shows)]

ShowsOf(S) == [e \in S |-> e.shows]

\* variant: sort_values('shows') without ascending=False
VenueStats_ascending(d) ==
    LET S == {VenueEntry(d, v) : v \in DistinctVenues(d)}
    IN  SortedAsc(S, ShowsOf(S))

VenueStats(d) ==
    LET S == {VenueEntry(d, v) : v \in DistinctVenues(d)}
    IN  SortedDesc(S, ShowsOf(S))

get_venue_stats ==
    /\ result = NoResult
    /\ \E v \in VenueStats(df) : result' = Returned("get_venue_stats", <<>>, v)
    /\ UNCHANGED df

(***************************************************************************)
(* find_song_appearances                                                   *)
(***************************************************************************)
\* the rows whose clean_song the pattern is found in
Matches(d, pat) == {i \in Idx(d) : StrContains(d[i].clean_song, pat)}

\* the Date column, by row number
DateOf(d) == [i \in Idx(d) |-> d[i].Date]

\* matches[['Date', 'Venue', 'Song']].sort_values('Date')
Appearances(d, pat) ==
    {[k \in 1..Len(s) |-> <<d[s[k]].Date, d[s[k]].Venue, d[s[k]].Song>>]
        : s \in SortedAsc(Matches(d, pat), DateOf(d))}

\* variant: the frame itself is sorted (sort_values('Date', inplace=True))
find_song_appearances_inplace(pat) ==
    /\ result = NoResult
    /\ Compiles(pat)
    /\ \E s \in SortedAsc(Idx(df), DateOf(df)) :
          /\ df' = [k \in Idx(df) |-> df[s[k]]]
          /\ \E v \in Appearances(df', pat) :
                result' = Returned("find_song_appearances", pat, v)

find_song_appearances(pat) ==
    /\ result = NoResult
    /\ IF ~Compiles(pat)
       THEN result' = Raised("find_song_appearances", pat, "re.error")
       ELSE \E v \in Appearances(df, pat) :
                result' = Returned("find_song_appearances", pat, v)
    /\ UNCHANGED df

(***************************************************************************)
(* export_for_visualization                                                *)
(***************************************************************************)
ExportTopN == 20

\* df['Date'].unique(): the dates in order of first appearance
UniqueDates(d) == Unique([i \in Idx(d) |-> d[i].Date])

DateRows(d, date) == Select(Len(d), {i \in Idx(d) : d[i].Date = date})

\* variant: the venue is read with iloc[-1]
ExportShow_lastRow(d, date) ==
    [date       |-> Strftime(date),
     venue      |-> d[DateRows(d, date)[Len(DateRows(d, date))]].Venue,
     songs      |-> SongsOf(d, DateRows(d, date)),
     song_count |-> Len(DateRows(d, date))]

ExportShow(d, date) ==
    [date       |-> Strftime(date),
     venue      |-> d[DateRows(d, date)[1]].Venue,
     songs      |-> SongsOf(d, DateRows(d, date)),
     song_count |-> Len(DateRows(d, date))]

ExportShows(d) == [k \in 1..Len(UniqueDates(d)) |-> ExportShow(d, UniqueDates(d)[k])]

\* get_venue_stats().to_dict('index'): keyed by venue, the order is lost
VenueDict(d) ==
    [v \in DistinctVenues(d) |->
        [shows |-> VenueEntry(d, v).shows,
         total_songs |-> VenueEntry(d, v).total_songs,
         avg_songs_per_show |-> VenueEntry(d, v).avg_songs_per_show]]

export_for_visualization ==
    /\ result = NoResult
    /\ IF StatsRaises(df)
       THEN result' = Raised("export_for_visualization", <<>>, "ValueError")
       ELSE \E freq \in TopSongs(df, ExportTopN) :
                result' = Returned("export_for_visualization", <<>>,
                            [shows |-> ExportShows(df),
                             song_frequency |-> freq,
                             venue_stats |-> VenueDict(df),
                             rare_songs |-> RareSongs(df),
                             stats |-> StatsRecord(df)])
    /\ UNCHANGED df

(***************************************************************************)
(* Specification                                                           *)
(***************************************************************************)
\* the caller takes the outcome (prints it, stores it, handles the
\* exception) and is ready for its next call
caller_continues ==
    /\ result # NoResult
    /\ result' = NoResult
    /\ UNCHANGED df

Next ==
    \/ get_stats
    \/ \E n \in TopN : get_top_songs(n)
    \/ \E date \in DateStrings : get_show_setlist(date)
    \/ get_rare_songs
    \/ get_venue_stats
    \/ \E pat \in Patterns : find_song_appearances(pat)
    \/ export_for_visualization
    \/ caller_continues

Spec == Init /\ [][Next]_vars

(***************************************************************************)
(* Properties                                                              *)
(***************************************************************************)
Called(op) == result.op = op

ReturnedFrom(op) == result.op = op /\ result.status = "ok"

RECURSIVE SumSeq(_)
SumSeq(s) == IF s = <<>> THEN 0 ELSE Head(s) + SumSeq(Tail(s))

\* the number of distinct dates on which clean song c is played
ShowsPlaying(d, c) == Cardinality({d[i].Date : i \in {j \in Idx(d) : d[j].clean_song = c}})

\* C1: every entry returned by get_top_songs has play_count equal to the
\* number of distinct dates on which its clean_song appears, so play_count
\* never exceeds total_shows.
C1_PlayCountIsDistinctShows ==
    ReturnedFrom("get_top_songs") =>
        \A k \in 1..Len(result.value) :
            /\ result.value[k].play_count = ShowsPlaying(df, result.value[k].clean_song)
            /\ result.value[k].play_count <= Cardinality(DistinctDates(df))

\* C2: get_top_songs(n) with n <= 0 fails with InvalidArgument and returns
\* no sequence; with n >= 1 it returns.
C2_NonPositiveNFails ==
    Called("get_top_songs") =>
        /\ result.arg <= 0 => (result.status = "raise" /\ result.value = "InvalidArgument")
        /\ result.arg >= 1 => result.status = "ok"

\* C3: on the empty dataset get_stats returns, with every count 0 and no
\* date range.
C3_EmptyStatsAllZero ==
    (Called("get_stats") /\ df = <<>>) =>
        /\ result.status = "ok"
        /\ result.value.total_shows = 0
        /\ result.value.total_songs = 0
        /\ result.value.unique_songs = 0
        /\ result.value.total_venues = 0
        /\ result.value.covers = 0
        /\ result.value.special_performances = 0
        /\ "date_range" \in DOMAIN result.value => result.value.date_range = "null"

\* the rows whose clean_song occurs in exactly one row of the dataset
OnceRows(d) == {i \in Idx(d) : \A j \in Idx(d) : d[j].clean_song = d[i].clean_song => j = i}

\* C4: get_rare_songs returns exactly the raw songs of the rows whose
\* clean_song occurs in exactly one row of the dataset.
C4_RareSongsExact ==
    ReturnedFrom("get_rare_songs") =>
        {result.value[k] : k \in 1..Len(result.value)} = {df[i].Song : i \in OnceRows(df)}

\* a rare song is returned while another song, played in two rows under
\* different raw texts, is left out
C4_Witness ==
    /\ ReturnedFrom("get_rare_songs")
    /\ result.value # <<>>
    /\ \E i, j \in Idx(df) :
          /\ df[i].Song # df[j].Song
          /\ df[i].clean_song = df[j].clean_song
          /\ \A k \in 1..Len(result.value) : result.value[k] \notin {df[i].Song, df[j].Song}

\* C5: for every dataset the export returns a summary whose 'shows' list
\* re-aggregates to get_stats(): as many entries as total_shows, and
\* song_count (equally the length of 'songs') summing to total_songs.
C5_ExportRoundTrip ==
    Called("export_for_visualization") =>
        /\ result.status = "ok"
        /\ Len(result.value.shows) = StatsRecord(df).total_shows
        /\ SumSeq([k \in 1..Len(result.value.shows) |-> result.value.shows[k].song_count])
              = StatsRecord(df).total_songs
        /\ SumSeq([k \in 1..Len(result.value.shows) |-> Len(result.value.shows[k].songs)])
              = StatsRecord(df).total_songs

\* s occurs in t as a literal substring, letters compared without case
LiteralContains(t, s) ==
    \E k \in 1..(Len(t) + 1) :
        /\ k + Len(s) - 1 <= Len(t)
        /\ \A i \in 1..Len(s) : Fold(s[i]) = Fold(t[k + i - 1])

Triple(d, i) == <<d[i].Date, d[i].Venue, d[i].Song>>

\* C6: find_song_appearances(s) returns, for every s, the (date, venue, song)
\* of exactly the rows whose clean_song contains s literally (case ignored),
\* in ascending date order.
C6_LiteralSubstringMatch ==
    Called("find_song_appearances") =>
        /\ result.status = "ok"
        /\ \A k \in 1..(Len(result.value) - 1) : result.value[k][1] <= result.value[k+1][1]
        /\ LET hit == {i \in Idx(df) : LiteralContains(df[i].clean_song, result.arg)}
           IN  /\ Len(result.value) = Cardinality(hit)
               /\ \A i \in hit :
                    Cardinality({k \in 1..Len(result.value) : result.value[k] = Triple(df, i)})
                      = Cardinality({j \in hit : Triple(df, j) = Triple(df, i)})

\* C7: get_venue_stats returns one entry per distinct venue, with shows the
\* number of distinct dates among the venue's rows and total_songs the
\* number of its rows, and shows never increases along the entries.
C7_VenueStats ==
    ReturnedFrom("get_venue_stats") =>
        /\ Len(result.value) = Cardinality({df[i].Venue : i \in Idx(df)})
        /\ \A i \in Idx(df) : \E k \in 1..Len(result.value) : result.value[k].Venue = df[i].Venue
        /\ \A k \in 1..Len(result.value) :
              /\ result.value[k].shows =
                    Cardinality({df[i].Date : i \in {j \in Idx(df) : df[j].Venue = result.value[k].Venue}})
              /\ result.value[k].total_songs =
                    Cardinality({j \in Idx(df) : df[j].Venue = result.value[k].Venue})
        /\ \A k \in 1..(Len(result.value) - 1) : result.value[k].shows >= result.value[k+1].shows

\* two venues with different numbers of shows, the busier one first although
\* it is not the venue of the first row
C7_Witness ==
    /\ ReturnedFrom("get_venue_stats")
    /\ Len(result.value) = 2
    /\ result.value[1].shows > result.value[2].shows
    /\ df[1].Venue = result.value[2].Venue

\* the rows of date x, and the k-th of them in row order
RowsOn(d, x) == {i \in Idx(d) : d[i].Date = x}

KthRowOn(d, x, k) == CHOOSE i \in RowsOn(d, x) : Cardinality({j \in RowsOn(d, x) : j <= i}) = k

\* C8: in the exported summary 'shows' has exactly one entry per distinct
\* date; an entry's venue is that of the first row with the date, its songs
\* are the raw songs of the date's rows in row order, and song_count is the
\* length of songs.
C8_ExportShows ==
    ReturnedFrom("export_for_visualization") =>
        LET shows == result.value.shows
        IN  /\ Len(shows) = Cardinality({df[i].Date : i \in Idx(df)})
            /\ \A i \in Idx(df) : \E k \in 1..Len(shows) : shows[k].date = Strftime(df[i].Date)
            /\ \A k \in 1..Len(shows) :
                  \E x \in {df[i].Date : i \in Idx(df)} :
                      /\ shows[k].date = Strftime(x)
                      /\ shows[k].venue = df[KthRowOn(df, x, 1)].Venue
                      /\ Len(shows[k].songs) = Cardinality(RowsOn(df, x))
                      /\ \A m \in 1..Len(shows[k].songs) :
                            shows[k].songs[m] = df[KthRowOn(df, x, m)].Song
                      /\ shows[k].song_count = Len(shows[k].songs)

\* a show whose rows name two venues and two songs
C8_Witness ==
    /\ ReturnedFrom("export_for_visualization")
    /\ \E k \in 1..Len(result.value.shows) :
          /\ result.value.shows[k].song_count >= 2
          /\ result.value.shows[k].songs[1] # result.value.shows[k].songs[2]
          /\ \E i \in Idx(df) :
                /\ Strftime(df[i].Date) = result.value.shows[k].date
                /\ df[i].Venue # result.value.shows[k].venue

\* C9: no query and no export changes the dataset: rows, their order and
\* every column stay as constructed.
C9_DatasetUnchanged == [][df' = df]_vars

\* a lookup has returned the rows in date order from a frame that is not in
\* date order
C9_Witness ==
    /\ ReturnedFrom("find_song_appearances")
    /\ Len(result.value) = Len(df)
    /\ \E i \in 1..(Len(df) - 1) : df[i].Date > df[i+1].Date

\* the text outside every parenthetical group
RECURSIVE OutsideGroups(_, _)
OutsideGroups(t, k) ==
    IF k = 0 THEN <<>>
    ELSE IF Depth(t, k) = 0 /\ t[k] # ")" THEN Append(OutsideGroups(t, k-1), t[k])
    ELSE OutsideGroups(t, k-1)

\* C10: every row's clean_song is its raw song with every parenthetical
\* group removed, the text between groups kept, and the ends trimmed.
C10_AllGroupsStripped ==
    \A i \in Idx(df) : df[i].clean_song = Strip(OutsideGroups(df[i].Song, Len(df[i].Song)))

====
